---------------------------- MODULE Spec2Model ----------------------------
(***************************************************************************)
(* A model of scripts/claude/kudzu-context.py: the pipeline that turns     *)
(* Kudzu hologram traces into the line-budgeted MEMORY.md document.        *)
(*                                                                         *)
(* Text is modelled as sequences of one-character strings, so that         *)
(* strip(), lower(), slicing and the substring test `a in b` are computed  *)
(* character by character as Python computes them.  A line of the          *)
(* document is a record [kind, name, text]: the kind of line, the section  *)
(* name of a heading, and the characters of a bullet.                      *)
(***************************************************************************)
EXTENDS Integers, Sequences, FiniteSets, TLC

VARIABLES
    pc,              \* position of the run / phase of the function under check
    items,           \* deduplicate: the input list of (content, recency) items
    kept,            \* deduplicate: the list it returned
    rekept,          \* deduplicate applied to its own output
    trace,           \* categorize_trace: the trace under classification
    section,         \* categorize_trace: the section name it returned
    raw,             \* build_sections: items per section before deduplication
    sections,        \* {section_name: [(content, recency), ...]}
    doc,             \* the lines render_memory_md returned
    state_file,      \* ~/.kudzu/session_holograms: the id stored under each key
    projects,        \* ~/.kudzu/projects.json: the project hologram ids
    stdout_encoding, \* the encoding of sys.stdout
    health,          \* main: what the /health request produced
    ids,             \* main: MEMORY_ID / RESEARCH_ID / LEARNING_ID after step 2
    idx,             \* main: position in the sources of step 3
    responses,       \* main: the trace requests made and their answers, in order
    all_traces,      \* main: traces accumulated by step 3
    file,            \* content of the file at memory_md_path
    posts,           \* main: number of context-run traces POSTed to the store
    exit_code        \* process exit status, -1 while running

vars == << pc, items, kept, rekept, trace, section, raw, sections, doc,
           state_file, projects, stdout_encoding, health, ids, idx, responses,
           all_traces, file, posts, exit_code >>

dedupVars == << items, kept, rekept >>
catVars   == << trace, section >>
buildVars == << raw, sections, doc >>
envVars   == << state_file, projects, stdout_encoding >>
mainVars  == << state_file, projects, stdout_encoding, health, ids, idx,
                responses, all_traces, file, posts, exit_code >>

-----------------------------------------------------------------------------
(* Python string primitives over sequences of characters *)

UpperLetters ==
    <<"A","B","C","D","E","F","G","H","I","J","K","L","M",
      "N","O","P","Q","R","S","T","U","V","W","X","Y","Z">>

LowerLetters ==
    <<"a","b","c","d","e","f","g","h","i","j","k","l","m",
      "n","o","p","q","r","s","t","u","v","w","x","y","z">>

\* str.lower() on one character
LowerChar(c) ==
    IF \E i \in DOMAIN UpperLetters : UpperLetters[i] = c
    THEN LowerLetters[CHOOSE i \in DOMAIN UpperLetters : UpperLetters[i] = c]
    ELSE c

\* str.lower()
Lower(s) == [i \in 1..Len(s) |-> LowerChar(s[i])]

\* the characters str.strip() removes
Whitespace == {" ", "\t", "\n", "\r"}

\* str.strip(): drop leading and trailing whitespace
Strip(s) ==
    LET keep == {i \in 1..Len(s) : s[i] \notin Whitespace}
    IN  IF keep = {} THEN <<>>
        ELSE LET lo == CHOOSE i \in keep : \A j \in keep : i <= j
                 hi == CHOOSE i \in keep : \A j \in keep : j <= i
             IN  SubSeq(s, lo, hi)

\* a slice that stops one character early
IsSubstrShortSlice(a, b) ==
    \/ a = <<>>
    \/ \E i \in 1..(Len(b) - Len(a) + 1) :
           SubSeq(b, i, i + Len(a) - 2) = SubSeq(a, 1, Len(a) - 1)

\* the Python test `a in b` on strings
IsSubstr(a, b) ==
    \/ a = <<>>
    \/ \E i \in 1..(Len(b) - Len(a) + 1) : SubSeq(b, i, i + Len(a) - 1) = a

\* the slice s[:n] for n >= 0
Prefix(s, n) == SubSeq(s, 1, IF n < Len(s) THEN n ELSE Len(s))

\* content.strip().lower(), the form deduplicate compares
Normalized(content) == Lower(Strip(content))

-----------------------------------------------------------------------------
(* deduplicate *)

\* a descending sort that reverses ties (a reversed ascending sort)
InsertByLenTiesReversed(sorted, x) ==
    LET pos == Cardinality({i \in 1..Len(sorted) :
                               Len(sorted[i].content) > Len(x.content)})
    IN  SubSeq(sorted, 1, pos) \o <<x>> \o SubSeq(sorted, pos + 1, Len(sorted))

\* sorted(items, key=lambda x: len(x[0]), reverse=True): one insertion of the
\* stable sort, x goes after every item at least as long
InsertByLen(sorted, x) ==
    LET pos == Cardinality({i \in 1..Len(sorted) :
                               Len(sorted[i].content) >= Len(x.content)})
    IN  SubSeq(sorted, 1, pos) \o <<x>> \o SubSeq(sorted, pos + 1, Len(sorted))

\* the insertions of list[lo..hi] in order into acc; the range is halved so
\* that the evaluation stays shallow on long lists
RECURSIVE SortByLenRange(_, _, _, _)
SortByLenRange(list, lo, hi, acc) ==
    IF lo > hi THEN acc
    ELSE IF lo = hi THEN InsertByLen(acc, list[lo])
    ELSE LET mid == (lo + hi) \div 2
             first == SortByLenRange(list, lo, mid, acc)
         IN  IF Len(first) >= 0   \* the first half is evaluated before the second
             THEN SortByLenRange(list, mid + 1, hi, first)
             ELSE <<>>

SortByLenDesc(list) == SortByLenRange(list, 1, Len(list), <<>>)

\* the is_dup flag: the normalized content is a substring of the normalized
\* content of an item kept so far
IsDup(normalized, keptNorms) ==
    \E k \in 1..Len(keptNorms) : IsSubstr(normalized, keptNorms[k])

\* the loop over sorted_items[lo..hi] in order.  acc.kept is the list kept so
\* far and acc.norms the strip().lower() of each kept content, computed once;
\* the range is halved so that the evaluation stays shallow on long lists
RECURSIVE DedupWalk(_, _, _, _)
DedupWalk(sorted, lo, hi, acc) ==
    IF lo > hi THEN acc
    ELSE IF lo = hi
    THEN LET normalized == Normalized(sorted[lo].content)
         IN  IF IsDup(normalized, acc.norms)
             THEN acc
             ELSE [kept |-> Append(acc.kept, sorted[lo]),
                   norms |-> Append(acc.norms, normalized)]
    ELSE LET mid == (lo + hi) \div 2
             first == DedupWalk(sorted, lo, mid, acc)
         IN  IF Len(first.kept) >= 0   \* the first half is evaluated before the second
             THEN DedupWalk(sorted, mid + 1, hi, first)
             ELSE acc

deduplicate(list) ==
    IF list = <<>> THEN list
    ELSE LET sorted_items == SortByLenDesc(list)
         IN  DedupWalk(sorted_items, 1, Len(sorted_items),
                       [kept |-> <<>>, norms |-> <<>>]).kept

-----------------------------------------------------------------------------
(* Traces.  A trace is [purpose, hint, timestamp].
   hint (reconstruction_hint) is [t, s, f]: t = "dict" with f the value under
   each known key, or t = "str" / "none" for a payload that is no mapping, s
   being the characters of str(hint).
   A value is [k, s]: k = "absent", "str" (the characters s) or "num" (the
   digits s).
   timestamp is [isdict, vals]: the values of the vector clock, each
   [num, v]. *)

Absent == [k |-> "absent", s |-> <<>>]
StrVal(chars) == [k |-> "str", s |-> chars]
NumVal(digits) == [k |-> "num", s |-> digits]

HintKeys == <<"content", "summary", "key_events", "event", "project">>

KeyChars(key) ==
    CASE key = "content"    -> <<"c","o","n","t","e","n","t">>
      [] key = "summary"    -> <<"s","u","m","m","a","r","y">>
      [] key = "key_events" -> <<"k","e","y","_","e","v","e","n","t","s">>
      [] key = "event"      -> <<"e","v","e","n","t">>
      [] key = "project"    -> <<"p","r","o","j","e","c","t">>

\* Python truthiness of a value
Truthy(val) ==
    CASE val.k = "absent" -> FALSE
      [] val.k = "str"    -> val.s # <<>>
      [] val.k = "num"    -> val.s # <<"0">>

\* repr() of a value inside str(dict)
ValueRepr(val) == IF val.k = "str" THEN <<"'">> \o val.s \o <<"'">> ELSE val.s

RECURSIVE DictBody(_, _, _)
DictBody(f, i, first) ==
    IF i > Len(HintKeys) THEN <<>>
    ELSE IF f[HintKeys[i]].k = "absent" THEN DictBody(f, i + 1, first)
    ELSE (IF first THEN <<>> ELSE <<",", " ">>)
         \o <<"'">> \o KeyChars(HintKeys[i]) \o <<"'", ":", " ">>
         \o ValueRepr(f[HintKeys[i]])
         \o DictBody(f, i + 1, FALSE)

\* str(hint)
HintStr(hint) ==
    IF hint.t = "dict" THEN <<"{">> \o DictBody(hint.f, 1, TRUE) \o <<"}">>
    ELSE hint.s

MaxFallback == 200

\* the first of content, summary, key_events, event holding a non-empty string
RECURSIVE FirstField(_, _)
FirstField(f, i) ==
    IF i > 4 THEN 0
    ELSE IF f[HintKeys[i]].k = "str" /\ f[HintKeys[i]].s # <<>> THEN i
    ELSE FirstField(f, i + 1)

extract_content(tr) ==
    IF tr.hint.t # "dict"
    THEN (IF tr.hint.t = "str" /\ tr.hint.s # <<>>
          THEN Prefix(HintStr(tr.hint), MaxFallback) ELSE <<>>)
    ELSE LET i == FirstField(tr.hint.f, 1)
         IN  IF i # 0 THEN Strip(tr.hint.f[HintKeys[i]].s)
             ELSE Prefix(HintStr(tr.hint), MaxFallback)

RECURSIVE MaxOf(_)
MaxOf(S) ==
    LET x == CHOOSE y \in S : TRUE
    IN  IF S = {x} THEN x
        ELSE LET m == MaxOf(S \ {x}) IN IF x > m THEN x ELSE m

extract_recency(tr) ==
    IF tr.timestamp.isdict
    THEN LET values == {tr.timestamp.vals[i].v :
                           i \in {j \in DOMAIN tr.timestamp.vals :
                                      tr.timestamp.vals[j].num}}
         IN  IF values # {} THEN MaxOf(values) ELSE 0
    ELSE 0

-----------------------------------------------------------------------------
(* Categorization *)

WORKFLOW_KEYWORDS ==
    { <<"c","o","m","m","i","t">>,
      <<"r","s","y","n","c">>,
      <<"d","e","p","l","o","y">>,
      <<"s","s","h">>,
      <<"g","i","t">>,
      <<"w","o","r","k","f","l","o","w">>,
      <<"b","u","i","l","d">>,
      <<"m","a","k","e">>,
      <<"d","o","c","k","e","r">>,
      <<"s","c","r","e","e","n">>,
      <<"t","m","u","x">>,
      <<"s","c","r","i","p","t">> }

FACT_KEYWORDS ==
    { <<"m","a","c","h","i","n","e">>,
      <<"r","e","p","o">>,
      <<"p","a","t","h">>,
      <<"u","r","l">>,
      <<"h","o","s","t">>,
      <<"s","e","r","v","e","r">>,
      <<"a","p","i">>,
      <<"p","o","r","t">>,
      <<"d","i","r","e","c","t","o","r","y">>,
      <<"i","p">>,
      <<"a","d","d","r","e","s","s">>,
      <<"e","n","d","p","o","i","n","t">>,
      <<"c","o","n","f","i","g">> }

ProjectWord == <<"p","r","o","j","e","c","t">>

SECTION_ORDER ==
    << "Current State", "Active Projects", "Key Facts",
       "Workflows", "Learnings", "Recent Decisions" >>

SectionNames == {SECTION_ORDER[i] : i \in DOMAIN SECTION_ORDER}

\* the general-trace rule with the two keyword tests in the other order
GeneralRuleFactsFirst(content_lower) ==
    IF \E kw \in FACT_KEYWORDS : IsSubstr(kw, content_lower) THEN "Key Facts"
    ELSE IF \E kw \in WORKFLOW_KEYWORDS : IsSubstr(kw, content_lower) THEN "Workflows"
    ELSE "Current State"

\* general traces: observation, thought, memory, or unknown
GeneralRule(content_lower) ==
    IF \E kw \in WORKFLOW_KEYWORDS : IsSubstr(kw, content_lower) THEN "Workflows"
    ELSE IF \E kw \in FACT_KEYWORDS : IsSubstr(kw, content_lower) THEN "Key Facts"
    ELSE "Current State"

categorize_trace(tr, content) ==
    LET content_lower == Lower(content)
    IN  IF tr.purpose \in {"learning", "discovery", "research"} THEN "Learnings"
        ELSE IF tr.purpose = "decision" THEN "Recent Decisions"
        ELSE IF tr.purpose = "session_context"
        THEN (IF tr.hint.t = "dict" /\ Truthy(tr.hint.f["project"])
              THEN "Active Projects"
              ELSE IF IsSubstr(ProjectWord, content_lower) THEN "Active Projects"
              ELSE "Current State")
        ELSE GeneralRule(content_lower)

-----------------------------------------------------------------------------
(* build_sections *)

EmptySections == [s \in SectionNames |-> <<>>]

\* the content test of the trace loop: empty or "{}" content is skipped
Skipped(content) == content = <<>> \/ content = <<"{", "}">>

\* the loop over all_traces, from index k on
RECURSIVE CategorizeAll(_, _, _)
CategorizeAll(traces, k, acc) ==
    IF k > Len(traces) THEN acc
    ELSE LET content == extract_content(traces[k])
         IN  IF Skipped(content) THEN CategorizeAll(traces, k + 1, acc)
             ELSE LET name == categorize_trace(traces[k], content)
                      item == [content |-> content,
                               recency |-> extract_recency(traces[k])]
                  IN  CategorizeAll(traces, k + 1,
                          IF name \in DOMAIN acc
                          THEN [acc EXCEPT ![name] = Append(@, item)]
                          ELSE acc)

\* an ascending sort by recency
InsertByRecencyAscending(sorted, x) ==
    LET pos == Cardinality({i \in 1..Len(sorted) : sorted[i].recency <= x.recency})
    IN  SubSeq(sorted, 1, pos) \o <<x>> \o SubSeq(sorted, pos + 1, Len(sorted))

\* list.sort(key=lambda x: x[1], reverse=True): one insertion of the stable
\* sort, x goes after every item at least as recent
InsertByRecency(sorted, x) ==
    LET pos == Cardinality({i \in 1..Len(sorted) : sorted[i].recency >= x.recency})
    IN  SubSeq(sorted, 1, pos) \o <<x>> \o SubSeq(sorted, pos + 1, Len(sorted))

RECURSIVE SortByRecencyRange(_, _, _, _)
SortByRecencyRange(list, lo, hi, acc) ==
    IF lo > hi THEN acc
    ELSE IF lo = hi THEN InsertByRecency(acc, list[lo])
    ELSE LET mid == (lo + hi) \div 2
             first == SortByRecencyRange(list, lo, mid, acc)
         IN  IF Len(first) >= 0   \* the first half is evaluated before the second
             THEN SortByRecencyRange(list, mid + 1, hi, first)
             ELSE <<>>

SortByRecencyDesc(list) == SortByRecencyRange(list, 1, Len(list), <<>>)

\* the second loop: deduplicate within each section, then sort by recency
DedupAndSort(bySection) ==
    [s \in DOMAIN bySection |-> SortByRecencyDesc(deduplicate(bySection[s]))]

build_sections(traces) == DedupAndSort(CategorizeAll(traces, 1, EmptySections))

-----------------------------------------------------------------------------
(* MEMORY.md generation *)

LINE_BUDGET == 180
MaxLineLen == 120

Line(kind) == [kind |-> kind, name |-> "", text |-> <<>>]
Heading(name) == [kind |-> "heading", name |-> name, text |-> <<>>]
Bullet(chars) == [kind |-> "bullet", name |-> "", text |-> <<"-", " ">> \o chars]

truncate_line(text, max_len) ==
    LET t == Strip([i \in 1..Len(text) |-> IF text[i] = "\n" THEN " " ELSE text[i]])
    IN  IF Len(t) > max_len THEN Prefix(t, max_len - 3) \o <<".", ".", ".">> ELSE t

RECURSIVE SumShares(_, _)
SumShares(per_section, names) ==
    IF names = <<>> THEN 0
    ELSE per_section[Head(names)] + SumShares(per_section, Tail(names))

\* max(per_section, key=per_section.get): the first section, in insertion
\* order, holding the largest share
Largest(per_section, names) ==
    names[CHOOSE i \in DOMAIN names :
            /\ \A j \in DOMAIN names : per_section[names[j]] <= per_section[names[i]]
            /\ \A j \in 1..(i - 1) : per_section[names[j]] < per_section[names[i]]]

\* the while loop that shrinks the largest share
RECURSIVE Shrink(_, _, _)
Shrink(per_section, names, available) ==
    IF /\ SumShares(per_section, names) > available
       /\ \E i \in DOMAIN names : per_section[names[i]] > 1
    THEN Shrink([per_section EXCEPT ![Largest(per_section, names)] = @ - 1],
                names, available)
    ELSE per_section

Max(a, b) == IF a >= b THEN a ELSE b

Header == << Line("title"), Line("blank"), Line("stamp"), Line("blank") >>

\* the names of the non-empty sections, in SECTION_ORDER
ActiveSections(secs) == SelectSeq(SECTION_ORDER, LAMBDA s : secs[s] # <<>>)

\* available = LINE_BUDGET - header_overhead - section_overhead, at least one
\* line per active section
Available(nActive) ==
    LET available == LINE_BUDGET - 4 - nActive * 2
    IN  IF available < nActive THEN nActive ELSE available

RECURSIVE TotalItems(_, _)
TotalItems(secs, names) ==
    IF names = <<>> THEN 0
    ELSE Len(secs[Head(names)]) + TotalItems(secs, Tail(names))

\* per_section after the proportional split and the shrink loop
Shares(secs) ==
    LET active == ActiveSections(secs)
        available == Available(Len(active))
        total_items == TotalItems(secs, active)
        names == {active[i] : i \in DOMAIN active}
        share == [s \in names |->
                    IF total_items > 0
                    THEN Max(1, (available * Len(secs[s])) \div total_items)
                    ELSE 1]
    IN  Shrink(share, active, available)

\* the lines of one section: heading, blank, up to max_items bullets, blank
SectionLines(name, list, max_items) ==
    << Heading(name), Line("blank") >>
    \o [i \in 1..(IF max_items < Len(list) THEN max_items ELSE Len(list)) |->
            Bullet(truncate_line(list[i].content, MaxLineLen))]
    \o << Line("blank") >>

RECURSIVE RenderSections(_, _, _)
RenderSections(secs, names, per_section) ==
    IF names = <<>> THEN <<>>
    ELSE SectionLines(Head(names), secs[Head(names)], per_section[Head(names)])
         \o RenderSections(secs, Tail(names), per_section)

\* a trim that cuts to the budget and then appends the notice
FinalTrimOverBudget(lines) ==
    IF Len(lines) > LINE_BUDGET
    THEN Append(SubSeq(lines, 1, LINE_BUDGET), Line("truncated"))
    ELSE lines

\* the final trim to the budget
FinalTrim(lines) ==
    IF Len(lines) > LINE_BUDGET
    THEN Append(SubSeq(lines, 1, LINE_BUDGET - 1), Line("truncated"))
    ELSE lines

render_memory_md(secs) ==
    LET active == ActiveSections(secs)
    IN  IF active = <<>> THEN Append(Header, Line("nodata"))
        ELSE FinalTrim(Header \o RenderSections(secs, active, Shares(secs)))

\* render_fallback_md: the ten lines of the degraded-mode document
render_fallback_md(reason) ==
    << Line("title"), Line("blank"), Line("stamp"), Line("blank"),
       [kind |-> "warning", name |-> reason, text |-> <<>>],
       Line("text"), Line("fence"), Line("text"), Line("fence"), Line("blank") >>

-----------------------------------------------------------------------------
(* Inputs of the deduplicate check *)

MaxItems == 3

\* lengths of the contents tried
ContentLengths == {1, 2}

Alphabet == {"a", "b", "A", " "}

RECURSIVE StringsOfLen(_)
StringsOfLen(n) ==
    IF n = 0 THEN {<<>>}
    ELSE {Append(s, c) : s \in StringsOfLen(n - 1), c \in Alphabet}

\* extract_content never hands build_sections an empty content
Contents == UNION {StringsOfLen(n) : n \in ContentLengths}

\* the list holding the contents cs in order, item i with recency i
ItemList(cs) == [i \in DOMAIN cs |-> [content |-> cs[i], recency |-> i]]

NoTrace == [purpose |-> "", hint |-> <<>>, timestamp |-> <<>>]

IdleDedup == items = <<>> /\ kept = <<>> /\ rekept = <<>>
IdleCat   == trace = NoTrace /\ section = ""
IdleBuild == raw = <<>> /\ sections = <<>> /\ doc = <<>>
IdleMain  == /\ state_file = <<>> /\ projects = <<>> /\ stdout_encoding = ""
             /\ health = "" /\ ids = <<>> /\ idx = 0 /\ responses = <<>>
             /\ all_traces = <<>> /\ file = <<>> /\ posts = 0 /\ exit_code = -1

InitDedup ==
    /\ pc = "input"
    /\ \E n \in 0..MaxItems : \E cs \in [1..n -> Contents] : items = ItemList(cs)
    /\ kept = <<>> /\ rekept = <<>>
    /\ IdleCat /\ IdleBuild /\ IdleMain

Deduplicate ==
    /\ pc = "input"
    /\ kept' = deduplicate(items)
    /\ pc' = "deduplicated"
    /\ UNCHANGED << items, rekept, catVars, buildVars, mainVars >>

DeduplicateAgain ==
    /\ pc = "deduplicated"
    /\ rekept' = deduplicate(kept)
    /\ pc' = "rerun"
    /\ UNCHANGED << items, kept, catVars, buildVars, mainVars >>

NextDedup == Deduplicate \/ DeduplicateAgain

SpecDedup == InitDedup /\ [][NextDedup]_vars

(* C3: deduplicate is idempotent: applied to its own output it returns the
   same items in the same order. *)
C3_DedupIdempotent == pc = "rerun" => rekept = kept

C3_Witness ==
    /\ pc = "rerun"
    /\ Len(kept) >= 2
    /\ Len(kept) < Len(items)

Survives(i) == \E k \in 1..Len(kept) : kept[k] = items[i]

ContainedInThird(i, j) ==
    \E h \in (1..Len(items)) \ {i, j} :
        IsSubstr(Normalized(items[i].content), Normalized(items[h].content))

(* C4: after deduplicate no surviving item's trimmed, lowercased content is
   a substring of another surviving item's trimmed, lowercased content. *)
C4_NoSurvivorContained ==
    pc = "deduplicated" =>
        \A i, j \in 1..Len(kept) :
            i # j => ~IsSubstr(Normalized(kept[i].content),
                               Normalized(kept[j].content))

(* C5 as claimed: two items whose contents are distinct strings of equal
   length, neither contained in a third item, both survive deduplicate. *)
C5_EqualLengthDistinctSurvive ==
    pc = "deduplicated" =>
        \A i, j \in 1..Len(items) :
            ( /\ i # j
              /\ items[i].content # items[j].content
              /\ Len(items[i].content) = Len(items[j].content)
              /\ ~ContainedInThird(i, j)
              /\ ~ContainedInThird(j, i) )
            => (Survives(i) /\ Survives(j))

NormalizedDistinctEqualLength(i, j) ==
    /\ i # j
    /\ Normalized(items[i].content) # Normalized(items[j].content)
    /\ Len(Normalized(items[i].content)) = Len(Normalized(items[j].content))
    /\ ~ContainedInThird(i, j)
    /\ ~ContainedInThird(j, i)

(* C5 amended: two items whose trimmed, lowercased contents are distinct
   strings of equal length, neither contained (trimmed, lowercased) in a
   third item, both survive deduplicate. *)
C5_NormalizedEqualLengthSurvive ==
    pc = "deduplicated" =>
        \A i, j \in 1..Len(items) :
            NormalizedDistinctEqualLength(i, j) => (Survives(i) /\ Survives(j))

C5_Witness ==
    /\ pc = "deduplicated"
    /\ Len(items) = 3
    /\ Len(kept) = 2
    /\ \E i, j \in 1..Len(items) :
          /\ NormalizedDistinctEqualLength(i, j)
          /\ items[i].content # Normalized(items[i].content)

-----------------------------------------------------------------------------
(* Inputs of the categorize_trace check: one pass of the trace loop of
   build_sections over every trace of a bounded family *)

MaxWords == 2

CatWords ==
    { <<"g","i","t">>, <<"A","p","i">>, <<"P","R","O","J","E","C","T">>,
      <<"n","o","t","e">>, <<"S","c","r","i","p","t">> }

RECURSIVE Phrases(_)
Phrases(n) ==
    IF n = 1 THEN CatWords
    ELSE {ph \o <<" ">> \o w : ph \in Phrases(n - 1), w \in CatWords}

CatContents == UNION {Phrases(n) : n \in 1..MaxWords}

Purposes ==
    { "learning", "discovery", "research", "decision", "session_context",
      "observation", "" }

NoFields ==
    [content |-> Absent, summary |-> Absent, key_events |-> Absent,
     event |-> Absent, project |-> Absent]

DictHint(f) == [t |-> "dict", s |-> <<>>, f |-> f]
StrHint(chars) == [t |-> "str", s |-> chars, f |-> NoFields]
NoneHint == [t |-> "none", s |-> <<>>, f |-> NoFields]

Clock(n) == [isdict |-> TRUE, vals |-> << [num |-> TRUE, v |-> n] >>]

CatHints ==
    {DictHint([NoFields EXCEPT !["content"] = c, !["summary"] = sm, !["project"] = p]) :
        c \in {Absent} \cup {StrVal(x) : x \in CatContents},
        sm \in {Absent, StrVal(<<"A","p","i">>)},
        p \in {Absent, StrVal(<<>>), StrVal(<<"k">>), NumVal(<<"0">>)}}
    \cup {StrHint(x) : x \in CatContents}
    \cup {NoneHint}

CatTraces ==
    {[purpose |-> p, hint |-> h, timestamp |-> Clock(1)] : p \in Purposes, h \in CatHints}

InitCategorize ==
    /\ pc = "trace"
    /\ trace \in CatTraces
    /\ section = ""
    /\ IdleDedup /\ IdleBuild /\ IdleMain

\* the loop body of build_sections for a trace whose content is kept
Categorize ==
    /\ pc = "trace"
    /\ ~Skipped(extract_content(trace))
    /\ section' = categorize_trace(trace, extract_content(trace))
    /\ pc' = "categorized"
    /\ UNCHANGED << trace, dedupVars, buildVars, mainVars >>

\* the loop body of build_sections for a trace with empty or "{}" content
Skip ==
    /\ pc = "trace"
    /\ Skipped(extract_content(trace))
    /\ pc' = "skipped"
    /\ UNCHANGED << trace, section, dedupVars, buildVars, mainVars >>

NextCategorize == Categorize \/ Skip

SpecCategorize == InitCategorize /\ [][NextCategorize]_vars

HasWorkflowKeyword(c) == \E kw \in WORKFLOW_KEYWORDS : IsSubstr(kw, c)
HasFactKeyword(c) == \E kw \in FACT_KEYWORDS : IsSubstr(kw, c)
HasProject(tr, c) ==
    \/ tr.hint.t = "dict" /\ Truthy(tr.hint.f["project"])
    \/ IsSubstr(ProjectWord, c)

(* C6: categorize_trace returns one of the six section names by the
   first-match order: learning/discovery/research -> Learnings; decision ->
   Recent Decisions; session_context -> Active Projects with a non-empty
   project field or "project" in the lowercased content, else Current State;
   any other purpose -> Workflows on a workflow keyword, else Key Facts on a
   fact keyword, else Current State. *)
C6_CategorizeFirstMatch ==
    pc = "categorized" =>
        LET c == Lower(extract_content(trace))
            p == trace.purpose
        IN  /\ section \in SectionNames
            /\ p \in {"learning", "discovery", "research"} => section = "Learnings"
            /\ p = "decision" => section = "Recent Decisions"
            /\ (p = "session_context" /\ HasProject(trace, c)) => section = "Active Projects"
            /\ (p = "session_context" /\ ~HasProject(trace, c)) => section = "Current State"
            /\ p \in {"observation", ""} =>
                  /\ HasWorkflowKeyword(c) => section = "Workflows"
                  /\ (~HasWorkflowKeyword(c) /\ HasFactKeyword(c)) => section = "Key Facts"
                  /\ (~HasWorkflowKeyword(c) /\ ~HasFactKeyword(c)) => section = "Current State"

C6_Witness ==
    /\ pc = "categorized"
    /\ trace.purpose = "observation"
    /\ HasWorkflowKeyword(Lower(extract_content(trace)))
    /\ HasFactKeyword(Lower(extract_content(trace)))
    /\ section = "Workflows"

-----------------------------------------------------------------------------
(* Inputs of the render_memory_md checks *)

Many == 60

Digits == <<"0","1","2","3","4","5","6","7","8","9">>

\* a three-digit content, distinct for each i below 1000
Code(i) == << Digits[((i \div 100) % 10) + 1], Digits[((i \div 10) % 10) + 1],
              Digits[(i % 10) + 1] >>

\* a section as build_sections leaves it: n items no one contained in
\* another, most recent first
BuiltList(n) == [i \in 1..n |-> [content |-> Code(i), recency |-> n - i]]

SectionCounts == {0, 1, Many, 3 * Many}

InitRender ==
    /\ pc = "built"
    /\ \E count \in [SectionNames -> SectionCounts] :
          sections = [s \in SectionNames |-> BuiltList(count[s])]
    /\ raw = <<>> /\ doc = <<>>
    /\ IdleDedup /\ IdleCat /\ IdleMain

Render ==
    /\ pc = "built"
    /\ doc' = render_memory_md(sections)
    /\ pc' = "rendered"
    /\ UNCHANGED << raw, sections, dedupVars, catVars, mainVars >>

NextRender == Render

SpecRender == InitRender /\ [][NextRender]_vars

\* the position of the heading of section s in document d, 0 if it has none
HeadingPos(d, s) ==
    IF \E i \in DOMAIN d : d[i] = Heading(s)
    THEN CHOOSE i \in DOMAIN d : d[i] = Heading(s)
    ELSE 0

\* the number of bullet lines document d shows under the heading of s
NumBullets(d, s) ==
    LET h == HeadingPos(d, s)
    IN  IF h = 0 THEN 0
        ELSE Cardinality({j \in (h + 2)..Len(d) :
                            \A m \in (h + 2)..j : d[m].kind = "bullet"})

(* C1: the document render_memory_md returns has at most LINE_BUDGET
   lines, header, headings, blank lines, bullets and notice included. *)
C1_WithinLineBudget == pc = "rendered" => Len(doc) <= LINE_BUDGET

C1_Witness ==
    /\ pc = "rendered"
    /\ Len(doc) = LINE_BUDGET
    /\ doc[Len(doc)].kind = "truncated"

(* C2: when available is at least the number of active sections, every
   non-empty section appears in the document with its heading and at least
   one bullet line, the final trim included. *)
C2_EveryActiveSectionShown ==
    (pc = "rendered" /\ Available(Len(ActiveSections(sections)))
                          >= Len(ActiveSections(sections))) =>
        \A s \in SectionNames :
            sections[s] # <<>> => (HeadingPos(doc, s) # 0 /\ NumBullets(doc, s) >= 1)

-----------------------------------------------------------------------------
(* Inputs of the build_sections ordering check: the per-section lists as the
   trace loop leaves them, in arrival order, with repeats that deduplicate
   removes and recency scores in no order *)

\* every fifth item repeats the last two digits of the item before it, every
\* seventh carries trailing whitespace
RawItem(i) ==
    [content |-> IF i % 5 = 0 THEN SubSeq(Code(i - 1), 2, 3)
                 ELSE IF i % 7 = 0 THEN Code(i) \o <<" ">>
                 ELSE Code(i),
     recency |-> (i * 7) % 11]

RawList(n) == [i \in 1..n |-> RawItem(i)]

RawCounts == {0, 2, Many}

InitBuild ==
    /\ pc = "categorized"
    /\ \E count \in [SectionNames -> RawCounts] :
          raw = [s \in SectionNames |-> RawList(count[s])]
    /\ sections = <<>> /\ doc = <<>>
    /\ IdleDedup /\ IdleCat /\ IdleMain

\* the second loop of build_sections
DedupSortSections ==
    /\ pc = "categorized"
    /\ sections' = DedupAndSort(raw)
    /\ pc' = "built"
    /\ UNCHANGED << raw, doc, dedupVars, catVars, mainVars >>

NextBuild == DedupSortSections \/ Render

SpecBuild == InitBuild /\ [][NextBuild]_vars

RecencyDescending(list) ==
    \A i, j \in 1..Len(list) : i < j => list[i].recency >= list[j].recency

\* the bullets under the heading of s are the first items of the section, and
\* no item left out is more recent than an item shown
ShownIsRecentPrefix(d, s, list) ==
    LET h == HeadingPos(d, s)
        m == NumBullets(d, s)
    IN  /\ m <= Len(list)
        /\ \A k \in 1..m : d[h + 1 + k] = Bullet(truncate_line(list[k].content, MaxLineLen))
        /\ \A k \in 1..m : \A j \in (m + 1)..Len(list) : list[j].recency <= list[k].recency

(* C9: after build_sections every section is in recency-descending order,
   and the bullets render_memory_md emits for a section are a prefix of that
   order: no item left out is more recent than an item shown. *)
C9_RecencyOrderAndPrefix ==
    /\ pc \in {"built", "rendered"} =>
          \A s \in SectionNames : RecencyDescending(sections[s])
    /\ pc = "rendered" =>
          \A s \in SectionNames : ShownIsRecentPrefix(doc, s, sections[s])

C9_Witness ==
    /\ pc = "rendered"
    /\ \E s \in SectionNames :
          /\ ~RecencyDescending(raw[s])
          /\ NumBullets(doc, s) >= 1
          /\ NumBullets(doc, s) < Len(sections[s])
          /\ sections[s][Len(sections[s])].recency < sections[s][1].recency

-----------------------------------------------------------------------------
(* main.  The store answers each request in one of the ways the code
   distinguishes; the state files and the destination path are readable and
   writable; printing fails only where a line cannot be encoded for stdout. *)

IdKeys == <<"MEMORY_ID", "RESEARCH_ID", "LEARNING_ID">>
IdKeySet == {IdKeys[i] : i \in DOMAIN IdKeys}

HologramId(key) ==
    CASE key = "MEMORY_ID"   -> "mem-1"
      [] key = "RESEARCH_ID" -> "res-1"
      [] key = "LEARNING_ID" -> "lrn-1"

\* the ids dict: every key, "" where the id is unknown
IdDicts == {[k \in IdKeySet |-> IF k \in S THEN HologramId(k) ELSE ""] : S \in SUBSET IdKeySet}
NoIds == [k \in IdKeySet |-> ""]

MaxProjects == 2
ProjectIds == <<"proj-1", "proj-2", "proj-3">>
ProjectLists == {[i \in 1..n |-> ProjectIds[i]] : n \in 0..MaxProjects}

TRACE_LIMIT == 50
PROJECT_LIMIT == 20

NonAscii == {"e'"}   \* one character outside ASCII (an accented e)

DecisionTrace ==
    [purpose |-> "decision",
     hint |-> DictHint([NoFields EXCEPT !["content"] =
                 StrVal(<<"U","s","e"," ","r","s","y","n","c">>)]),
     timestamp |-> Clock(3)]

LearningTrace ==
    [purpose |-> "learning",
     hint |-> DictHint([NoFields EXCEPT !["summary"] = StrVal(<<"c","a","f","e'">>)]),
     timestamp |-> [isdict |-> TRUE,
                    vals |-> << [num |-> TRUE, v |-> 5], [num |-> TRUE, v |-> 9] >>]]

FactTrace ==
    [purpose |-> "observation",
     hint |-> StrHint(<<"a","p","i"," ","p","o","r","t">>),
     timestamp |-> [isdict |-> FALSE, vals |-> <<>>]]

\* what a trace request can produce: the request or json.loads raises; the
\* JSON is no object; it is an object without "traces"; "traces" is null; or
\* "traces" is a list of traces
FetchOutcomes ==
    {[kind |-> k, traces |-> <<>>] :
        k \in {"raises", "not_object", "no_traces_key", "traces_null"}}
    \cup {[kind |-> "ok", traces |-> l] :
             l \in {<<DecisionTrace>>, <<LearningTrace, FactTrace>>}}

\* what fetch_traces returns for a non-empty id: a list, or None when the
\* response holds "traces": null
fetch_traces(out) ==
    CASE out.kind \in {"raises", "not_object"} -> [isnone |-> FALSE, list |-> <<>>]
      [] out.kind = "no_traces_key"            -> [isnone |-> FALSE, list |-> <<>>]
      [] out.kind = "traces_null"              -> [isnone |-> TRUE, list |-> <<>>]
      [] out.kind = "ok"                       -> [isnone |-> FALSE, list |-> out.traces]

\* the sources of step 3, in order: the three hologram ids, then the projects
Sources(idDict, projectList) ==
    [i \in 1..3 |-> [id |-> idDict[IdKeys[i]], limit |-> TRACE_LIMIT]]
    \o [i \in 1..Len(projectList) |-> [id |-> projectList[i], limit |-> PROJECT_LIMIT]]

\* a health check that accepts any JSON object
HealthReachableAnyStatus(h) == h \in {"ok", "status_other"}

\* kudzu_reachable: the health response is an object whose status is "ok"
HealthReachable(h) == h = "ok"

\* get_hologram_ids: the stored ids, gaps filled from discovery unless all
\* three are stored
get_hologram_ids(loaded, discovered) ==
    IF \A k \in IdKeySet : loaded[k] # "" THEN loaded
    ELSE [k \in IdKeySet |->
            IF loaded[k] = "" /\ discovered[k] # "" THEN discovered[k] ELSE loaded[k]]

\* the lines print_summary prints after its first: the three most recent of
\* the first three items of every active section
SummaryLines(secs) ==
    LET active == ActiveSections(secs)
        firsts(name) == [i \in 1..(IF Len(secs[name]) < 3 THEN Len(secs[name]) ELSE 3) |->
                            secs[name][i]]
        cat[i \in 0..Len(active)] ==
            IF i = 0 THEN <<>> ELSE cat[i - 1] \o firsts(active[i])
        top == SortByRecencyDesc(cat[Len(active)])
    IN  [i \in 1..(IF Len(top) < 3 THEN Len(top) ELSE 3) |-> truncate_line(top[i].content, 90)]

\* print raises UnicodeEncodeError on a line stdout cannot encode
PrintSummaryRaises(secs, encoding) ==
    /\ encoding = "ascii"
    /\ \E i \in DOMAIN SummaryLines(secs) :
          \E j \in DOMAIN SummaryLines(secs)[i] : SummaryLines(secs)[i][j] \in NonAscii

InitMain ==
    /\ pc = "start"
    /\ state_file \in IdDicts
    /\ projects \in ProjectLists
    /\ stdout_encoding \in {"utf-8", "ascii"}
    /\ health = "" /\ ids = NoIds /\ idx = 0 /\ responses = <<>>
    /\ all_traces = <<>> /\ file = <<>> /\ posts = 0 /\ exit_code = -1
    /\ IdleDedup /\ IdleCat /\ IdleBuild

\* step 1: the health check and its two fallback exits
CheckHealth ==
    /\ pc = "start"
    /\ \E h \in {"raises", "not_object", "status_other", "ok"} :
          /\ health' = h
          /\ IF h \in {"raises", "not_object"}
             THEN /\ file' = render_fallback_md("exception")
                  /\ pc' = "done" /\ exit_code' = 0
             ELSE IF ~HealthReachable(h)
             THEN /\ file' = render_fallback_md("health check failed")
                  /\ pc' = "done" /\ exit_code' = 0
             ELSE /\ pc' = "ids"
                  /\ UNCHANGED << file, exit_code >>
    /\ UNCHANGED << envVars, ids, idx, responses, all_traces, posts,
                    dedupVars, catVars, buildVars >>

\* step 2: get_hologram_ids (load, discover, save) and the no-ids exit
GetHologramIds ==
    /\ pc = "ids"
    /\ \E discovered \in IdDicts :
          LET merged == get_hologram_ids(state_file, discovered)
          IN  /\ ids' = merged
              /\ state_file' = IF \A k \in IdKeySet : state_file[k] # "" THEN state_file
                               ELSE IF merged # NoIds THEN merged ELSE state_file
              /\ IF merged = NoIds
                 THEN /\ file' = render_fallback_md("no holograms found")
                      /\ pc' = "done" /\ exit_code' = 0 /\ idx' = idx
                 ELSE /\ pc' = "fetch" /\ idx' = 1
                      /\ UNCHANGED << file, exit_code >>
    /\ UNCHANGED << projects, stdout_encoding, health, responses, all_traces, posts,
                    dedupVars, catVars, buildVars >>

\* step 3, one source: all_traces.extend(fetch_traces(id))
FetchSource ==
    /\ pc = "fetch"
    /\ LET src == Sources(ids, projects)[idx]
           last == idx = Len(Sources(ids, projects))
       IN  \/ /\ src.id = ""
              /\ UNCHANGED << responses, all_traces >>
              /\ idx' = idx + 1
              /\ pc' = IF last THEN "build" ELSE "fetch"
           \/ /\ src.id # ""
              /\ \E out \in FetchOutcomes :
                    /\ responses' = Append(responses,
                          [id |-> src.id, limit |-> src.limit,
                           kind |-> out.kind, traces |-> out.traces])
                    /\ IF fetch_traces(out).isnone
                       THEN /\ pc' = "crashed"
                            /\ UNCHANGED << all_traces, idx >>
                       ELSE /\ all_traces' = all_traces \o fetch_traces(out).list
                            /\ idx' = idx + 1
                            /\ pc' = IF last THEN "build" ELSE "fetch"
    /\ UNCHANGED << envVars, health, ids, file, posts, exit_code,
                    dedupVars, catVars, buildVars >>

\* step 4: build_sections
BuildSections ==
    /\ pc = "build"
    /\ sections' = build_sections(all_traces)
    /\ pc' = "write"
    /\ UNCHANGED << raw, doc, mainVars, dedupVars, catVars >>

\* step 5: render and write MEMORY.md
WriteMemory ==
    /\ pc = "write"
    /\ doc' = render_memory_md(sections)
    /\ file' = render_memory_md(sections)
    /\ pc' = "record"
    /\ UNCHANGED << raw, sections, envVars, health, ids, idx, responses, all_traces,
                    posts, exit_code, dedupVars, catVars >>

\* step 6: record_context_run, whose failures are swallowed
RecordContextRun ==
    /\ pc = "record"
    /\ posts' = IF ids["MEMORY_ID"] = "" THEN posts ELSE posts + 1
    /\ pc' = "summary"
    /\ UNCHANGED << envVars, health, ids, idx, responses, all_traces, file, exit_code,
                    dedupVars, catVars, buildVars >>

\* step 7: print_summary; main returns, or the print raises out of main
PrintSummary ==
    /\ pc = "summary"
    /\ IF PrintSummaryRaises(sections, stdout_encoding)
       THEN pc' = "crashed" /\ exit_code' = exit_code
       ELSE pc' = "done" /\ exit_code' = 0
    /\ UNCHANGED << envVars, health, ids, idx, responses, all_traces, file, posts,
                    dedupVars, catVars, buildVars >>

\* the last-resort handler of __main__: write the fallback, exit 1
LastResort ==
    /\ pc = "crashed"
    /\ file' = render_fallback_md("exception")
    /\ exit_code' = 1
    /\ pc' = "done"
    /\ UNCHANGED << envVars, health, ids, idx, responses, all_traces, posts,
                    dedupVars, catVars, buildVars >>

Next ==
    \/ CheckHealth
    \/ GetHologramIds
    \/ FetchSource
    \/ BuildSections
    \/ WriteMemory
    \/ RecordContextRun
    \/ PrintSummary
    \/ LastResort

Spec == InitMain /\ [][Next]_vars

\* the degraded-mode document: the warning notice, no heading, no bullet
IsFallback(f) ==
    /\ \E i \in DOMAIN f : f[i].kind = "warning"
    /\ \A i \in DOMAIN f : f[i].kind \notin {"heading", "bullet"}

(* C7: when the health check raises or reports a status other than ok, or
   no hologram id is loaded or discovered, main writes the degraded-mode
   document, fetches no traces, records no context run and returns
   normally. *)
C7_DegradedRun ==
    (pc = "done" /\ (health # "ok" \/ ids = NoIds)) =>
        /\ IsFallback(file)
        /\ responses = <<>>
        /\ all_traces = <<>>
        /\ posts = 0
        /\ exit_code = 0

C7_Witness ==
    /\ pc = "done"
    /\ health = "ok"
    /\ ids = NoIds
    /\ file = render_fallback_md("no holograms found")
    /\ exit_code = 0

\* the ids of the sources with a non-empty id, in the order of step 3
SourceIds(idDict, projectList) ==
    LET nonEmpty == SelectSeq(Sources(idDict, projectList), LAMBDA src : src.id # "")
    IN  [i \in 1..Len(nonEmpty) |-> nonEmpty[i].id]

\* the traces of the requests that answered with a list, in request order
GoodTraces(resp) ==
    LET cat[i \in 0..Len(resp)] ==
            IF i = 0 THEN <<>>
            ELSE cat[i - 1] \o (IF resp[i].kind = "ok" THEN resp[i].traces ELSE <<>>)
    IN  cat[Len(resp)]

(* C8: a source whose fetch fails or answers with a malformed response
   contributes no traces and stops nothing: every source is queried once in
   order, and the document is built from exactly the traces of the sources
   that succeeded. *)
C8_FetchFailureContained ==
    (pc = "done" /\ health = "ok" /\ ids # NoIds) =>
        /\ [i \in 1..Len(responses) |-> responses[i].id] = SourceIds(ids, projects)
        /\ all_traces = GoodTraces(responses)
        /\ doc = render_memory_md(build_sections(GoodTraces(responses)))

(* C10: once main has written the compacted document, the file keeps it to
   the end of the run; it is never replaced by the degraded-mode notice. *)
C10_DocumentKept == doc # <<>> => file = doc

=============================================================================
